---- MODULE Spec2Model ----
(***************************************************************************)
(* Model of the llms.txt generator backend: the crawler package            *)
(* (url_utils.py, robots.py, sitemap.py, crawler.py) and the generator     *)
(* package (generator.py).                                                 *)
(*                                                                         *)
(* Strings are sequences of one-character strings, so that parsing,        *)
(* unparsing, stripping and pattern matching are computed character by     *)
(* character as the Python code computes them.                             *)
(***************************************************************************)
EXTENDS Integers, Sequences, FiniteSets, TLC

VARIABLES
    pc,         \* position of the running function
    arg,        \* the arguments of the function under study (a record)
    ret,        \* the values it has produced so far (a record)
    opts,       \* crawl_site: CrawlOptions
    base_url,   \* crawl_site: normalized base_url
    origin,     \* crawl_site: get_origin(base_url)
    disallowed_patterns, \* crawl_site: compiled Disallow patterns
    delay,      \* crawl_site: effective delay, in tenths of a second
    to_visit,   \* crawl_site: the frontier
    visited,    \* crawl_site: the visited set
    results,    \* crawl_site: list of PageInfo
    gets,       \* history: page GETs issued so far, in order
    aux_gets,   \* history: GETs of robots.txt and of sitemaps, in order
    last        \* history: what the last loop iteration did

vars == <<pc, arg, ret, opts, base_url, origin, disallowed_patterns,
          delay, to_visit, visited, results, gets, aux_gets, last>>

crawlVars == <<opts, base_url, origin, disallowed_patterns, delay,
               to_visit, visited, results, gets, aux_gets, last>>

----------------------------------------------------------------------------
(* Strings *)

LowerCase == <<"a", "b", "c", "d", "e", "f", "g", "h", "i", "j", "k", "l", "m",
               "n", "o", "p", "q", "r", "s", "t", "u", "v", "w", "x", "y", "z">>

UpperCase == <<"A", "B", "C", "D", "E", "F", "G", "H", "I", "J", "K", "L", "M",
               "N", "O", "P", "Q", "R", "S", "T", "U", "V", "W", "X", "Y", "Z">>

Letters == {LowerCase[i] : i \in 1..26} \cup {UpperCase[i] : i \in 1..26}

\* str.lower()
LowerChar(c) ==
    IF \E i \in 1..26 : UpperCase[i] = c
    THEN LowerCase[CHOOSE i \in 1..26 : UpperCase[i] = c]
    ELSE c

Lower(s) == [i \in 1..Len(s) |-> LowerChar(s[i])]

DigitChars == <<"0", "1", "2", "3", "4", "5", "6", "7", "8", "9">>

Digits == {DigitChars[i] : i \in 1..10}

\* urllib.parse.scheme_chars
scheme_chars == Letters \cup Digits \cup {"+", "-", "."}

HasChar(s, c) == \E i \in 1..Len(s) : s[i] = c

\* str.find(c): 1-based index of the first occurrence, 0 when absent
Find(s, c) ==
    IF HasChar(s, c)
    THEN CHOOSE i \in 1..Len(s) : s[i] = c /\ \A j \in 1..(i - 1) : s[j] # c
    ELSE 0

\* str.rfind(c): 1-based index of the last occurrence, 0 when absent
RFind(s, c) ==
    IF HasChar(s, c)
    THEN CHOOSE i \in 1..Len(s) : s[i] = c /\ \A j \in (i + 1)..Len(s) : s[j] # c
    ELSE 0

\* s[:n]
Take(s, n) == SubSeq(s, 1, IF n < Len(s) THEN n ELSE Len(s))

\* s[n:]
Drop(s, n) == SubSeq(s, n + 1, Len(s))

\* s.startswith(p)
StartsWith(s, p) == Len(s) >= Len(p) /\ Take(s, Len(p)) = p

\* s.endswith(p)
EndsWith(s, p) == Len(s) >= Len(p) /\ Drop(s, Len(s) - Len(p)) = p

\* s.rstrip(c): every trailing c is removed
RStrip(s, c) ==
    LET n == CHOOSE k \in 0..Len(s) :
                 /\ \A j \in (k + 1)..Len(s) : s[j] = c
                 /\ (k = 0 \/ s[k] # c)
    IN  SubSeq(s, 1, n)

\* s.lstrip(c)
LStrip(s, c) ==
    LET n == CHOOSE k \in 0..Len(s) :
                 /\ \A j \in 1..k : s[j] = c
                 /\ (k = Len(s) \/ s[k + 1] # c)
    IN  Drop(s, n)

\* first index at or after position from (1-based) holding a char of cs, 0 when none
FindAnyFrom(s, cs, from) ==
    IF \E i \in from..Len(s) : s[i] \in cs
    THEN CHOOSE i \in from..Len(s) : s[i] \in cs /\ \A j \in from..(i - 1) : s[j] \notin cs
    ELSE 0

HTTP == <<"h", "t", "t", "p">>

HTTPS == <<"h", "t", "t", "p", "s">>

P80 == <<":", "8", "0">>

P443 == <<":", "4", "4", "3">>

----------------------------------------------------------------------------
(* urllib.parse, as used by url_utils.py.  A value computed once and used   *)
(* several times is handed on as an argument of the next operator.          *)

\* urllib's uses_netloc / uses_params / uses_relative lists, cut down to the
\* schemes that occur in the URLs of the model ('' included)
uses_netloc == {<<>>, HTTP, HTTPS}

uses_params == {<<>>, HTTP, HTTPS}

uses_relative == {<<>>, HTTP, HTTPS}

\* urlsplit raises ValueError("Invalid IPv6 URL") on an unbalanced bracket
\* in the netloc
BadNetloc(netloc) ==
    \/ HasChar(netloc, "[") /\ ~HasChar(netloc, "]")
    \/ HasChar(netloc, "]") /\ ~HasChar(netloc, "[")

\* <<s[:i-1], s[i+1:]>> for a separator found at i, <<s, "">> when i = 0
SplitAt(s, i) == IF i > 0 THEN <<Take(s, i - 1), Drop(s, i)>> ELSE <<s, <<>> >>

\* s.split(c, 1), padded with "" when c is absent
Partition(s, c) == SplitAt(s, Find(s, c))

\* urlsplit: i is the index of the first ':'; the text before it is a scheme
\* when it starts with a letter and holds scheme characters only
IsSchemeEnd(url, i) ==
    /\ i > 1
    /\ url[1] \in Letters
    /\ \A k \in 1..(i - 1) : url[k] \in scheme_chars

\* urlsplit: <<scheme, rest of the url>>
SplitScheme(url, defscheme, i) ==
    IF IsSchemeEnd(url, i)
    THEN <<Lower(Take(url, i - 1)), Drop(url, i)>>
    ELSE <<defscheme, url>>

\* _splitnetloc(url, 2): <<netloc, rest>>, delim being the index of the first
\* of '/', '?', '#' after the leading '//' (0 when there is none)
SplitNetlocAt(url, delim) ==
    IF delim = 0 THEN <<Drop(url, 2), <<>> >>
    ELSE <<SubSeq(url, 3, delim - 1), Drop(url, delim - 1)>>

\* urlsplit: <<netloc, rest>> of what follows the scheme
SplitNetloc(url) ==
    IF StartsWith(url, <<"/", "/">>)
    THEN SplitNetlocAt(url, FindAnyFrom(url, {"/", "?", "#"}, 3))
    ELSE << <<>>, url>>

\* urlsplit, from the query on: pq is <<path, query>>
SplitResult(scheme, netloc, pq, fragment) ==
    [scheme |-> scheme, netloc |-> netloc, path |-> pq[1],
     query |-> pq[2], fragment |-> fragment, error |-> BadNetloc(netloc)]

\* urlsplit, from the fragment on: uf is <<url, fragment>>
SplitQuery(scheme, netloc, uf) ==
    SplitResult(scheme, netloc, Partition(uf[1], "?"), uf[2])

\* urlsplit, from the netloc on: nu is <<netloc, rest>>
SplitFragment(scheme, nu) == SplitQuery(scheme, nu[1], Partition(nu[2], "#"))

\* urlsplit, from the scheme on: su is <<scheme, rest>>
SplitAfterScheme(su) == SplitFragment(su[1], SplitNetloc(su[2]))

\* urlsplit(url, scheme): <scheme>://<netloc>/<path>?<query>#<fragment>
urlsplit(url, defscheme) ==
    SplitAfterScheme(SplitScheme(url, defscheme, Find(url, ":")))

\* _splitparams(url): <<path, params>> of the last path segment
_splitparams(url) ==
    SplitAt(url, IF HasChar(url, "/")
                 THEN FindAnyFrom(url, {";"}, RFind(url, "/"))
                 ELSE Find(url, ";"))

\* urlparse: the result, pp being <<path, params>>
ParseResult(s, pp) ==
    [scheme |-> s.scheme, netloc |-> s.netloc, path |-> pp[1],
     params |-> pp[2], query |-> s.query, fragment |-> s.fragment,
     error |-> s.error]

\* urlparse: the params are split off the path of the split result s
WithParams(s) ==
    ParseResult(s, IF s.scheme \in uses_params /\ HasChar(s.path, ";")
                   THEN _splitparams(s.path)
                   ELSE <<s.path, <<>> >>)

\* urlparse(url, scheme)
urlparse(url, defscheme) == WithParams(urlsplit(url, defscheme))

\* urlunsplit: '//' + netloc + url, when there is a netloc or the scheme
\* uses one
WithNetloc(scheme, netloc, url) ==
    IF \/ netloc # <<>>
       \/ /\ scheme # <<>>
          /\ scheme \in uses_netloc
          /\ Take(url, 2) # <<"/", "/">>
    THEN <<"/", "/">> \o netloc \o
         (IF url # <<>> /\ url[1] # "/" THEN <<"/">> \o url ELSE url)
    ELSE url

\* urlunsplit: scheme + ':' + url
WithScheme(scheme, url) == IF scheme # <<>> THEN scheme \o <<":">> \o url ELSE url

\* urlunsplit: url + sep + part, when there is a part
WithPart(url, sep, part) == IF part # <<>> THEN url \o <<sep>> \o part ELSE url

\* urlunsplit((scheme, netloc, url, query, fragment))
urlunsplit(scheme, netloc, url, query, fragment) ==
    WithPart(WithPart(WithScheme(scheme, WithNetloc(scheme, netloc, url)),
                      "?", query),
             "#", fragment)

\* urlunparse((scheme, netloc, url, params, query, fragment))
urlunparse(scheme, netloc, url, params, query, fragment) ==
    urlunsplit(scheme, netloc, WithPart(url, ";", params), query, fragment)

\* str.split(c)
RECURSIVE Split(_, _)
Split(s, c) ==
    IF ~HasChar(s, c) THEN <<s>>
    ELSE <<Take(s, Find(s, c) - 1)>> \o Split(Drop(s, Find(s, c)), c)

\* c.join(segs)
RECURSIVE Join(_, _)
Join(segs, c) ==
    IF segs = <<>> THEN <<>>
    ELSE IF Len(segs) = 1 THEN segs[1]
    ELSE segs[1] \o <<c>> \o Join(Tail(segs), c)

\* the loop of urljoin that resolves '.' and '..' segments
RECURSIVE ResolveDots(_, _)
ResolveDots(segments, resolved_path) ==
    IF segments = <<>> THEN resolved_path
    ELSE IF Head(segments) = <<".", ".">>
    THEN ResolveDots(Tail(segments),
                     IF resolved_path = <<>> THEN <<>>
                     ELSE SubSeq(resolved_path, 1, Len(resolved_path) - 1))
    ELSE IF Head(segments) = <<".">>
    THEN ResolveDots(Tail(segments), resolved_path)
    ELSE ResolveDots(Tail(segments), Append(resolved_path, Head(segments)))

\* segments[1:-1] = filter(None, segments[1:-1])
FilterMiddle(segments) ==
    IF Len(segments) < 3 THEN segments
    ELSE <<segments[1]>>
         \o SelectSeq(SubSeq(segments, 2, Len(segments) - 1), LAMBDA g : g # <<>>)
         \o <<segments[Len(segments)]>>

\* urljoin: base_parts, the segments of the base path without its last one
\* unless that is empty
BaseParts(bp) == IF bp[Len(bp)] # <<>> THEN SubSeq(bp, 1, Len(bp) - 1) ELSE bp

\* urljoin: the segments to resolve
JoinSegments(bpath, path) ==
    IF Take(path, 1) = <<"/">> THEN Split(path, "/")
    ELSE FilterMiddle(BaseParts(Split(bpath, "/")) \o Split(path, "/"))

\* urljoin: the resolved segments, with '' appended after a last '.' or '..'
ResolvedPath(segments) ==
    IF segments[Len(segments)] \in {<<".">>, <<".", ".">>}
    THEN Append(ResolveDots(segments, <<>>), <<>>)
    ELSE ResolveDots(segments, <<>>)

\* '/'.join(resolved_path) or '/'
OrSlash(path) == IF path = <<>> THEN <<"/">> ELSE path

\* urljoin, once base and url are parsed into b and u
JoinParsed(url, b, u) ==
    IF u.scheme # b.scheme \/ u.scheme \notin uses_relative THEN url
    ELSE IF u.scheme \in uses_netloc /\ u.netloc # <<>>
    THEN urlunparse(u.scheme, u.netloc, u.path, u.params, u.query, u.fragment)
    ELSE IF u.path = <<>> /\ u.params = <<>>
    THEN urlunparse(u.scheme,
                    IF u.scheme \in uses_netloc THEN b.netloc ELSE u.netloc,
                    b.path, b.params,
                    IF u.query = <<>> THEN b.query ELSE u.query, u.fragment)
    ELSE urlunparse(u.scheme,
                    IF u.scheme \in uses_netloc THEN b.netloc ELSE u.netloc,
                    OrSlash(Join(ResolvedPath(JoinSegments(b.path, u.path)), "/")),
                    u.params, u.query, u.fragment)

\* urljoin, once base is parsed into b
JoinBase(url, b) == JoinParsed(url, b, urlparse(url, b.scheme))

\* urljoin(base, url)
urljoin(base, url) ==
    IF base = <<>> THEN url
    ELSE IF url = <<>> THEN base
    ELSE JoinBase(url, urlparse(base, <<>>))

\* the ValueError of urlsplit, as it escapes urljoin(base, url)
urljoin_raises(base, url) ==
    /\ base # <<>>
    /\ url # <<>>
    /\ (urlsplit(base, <<>>).error \/ urlsplit(url, <<>>).error)

----------------------------------------------------------------------------
(* url_utils.py *)

\* normalize_url: the netloc without its port when that is the default port
\* of the scheme
StripDefaultPort(scheme, netloc) ==
    IF /\ netloc # <<>>
       /\ HasChar(netloc, ":")
       /\ (EndsWith(netloc, P80) \/ EndsWith(netloc, P443))
       /\ \/ scheme = HTTPS /\ Drop(netloc, RFind(netloc, ":")) = <<"4", "4", "3">>
          \/ scheme = HTTP /\ Drop(netloc, RFind(netloc, ":")) = <<"8", "0">>
    THEN Take(netloc, RFind(netloc, ":") - 1)
    ELSE netloc

\* a or b
Or(a, b) == IF a = <<>> THEN b ELSE a

\* normalized.rstrip("/") or normalized
StripSlashes(normalized) == Or(RStrip(normalized, "/"), normalized)

\* normalize_url, once the url is parsed
NormalizeParsed(parsed) ==
    StripSlashes(urlunparse(Or(parsed.scheme, HTTPS),
                            StripDefaultPort(parsed.scheme, parsed.netloc),
                            Or(parsed.path, <<"/">>),
                            parsed.params, parsed.query, <<>>))

\* normalize_url(url, base); base = <<>> stands for base=None
normalize_url(url, base) ==
    NormalizeParsed(urlparse(IF base # <<>> THEN urljoin(base, url) ELSE url, <<>>))

\* the ValueError that escapes normalize_url(url, base)
normalize_url_raises(url, base) ==
    \/ urljoin_raises(base, url)
    \/ urlsplit(IF base # <<>> THEN urljoin(base, url) ELSE url, <<>>).error

\* get_origin, once the url is parsed
OriginOf(parsed) == Or(parsed.scheme, HTTPS) \o <<":", "/", "/">> \o parsed.netloc

\* get_origin(url): scheme://netloc
get_origin(url) == OriginOf(urlparse(url, <<>>))

\* is_same_origin(url, base_origin)
is_same_origin(url, base_origin) == get_origin(url) = base_origin

----------------------------------------------------------------------------
(* Bounded sets of strings *)

\* all sequences over the set cs of length at most n
RECURSIVE SeqsUpTo(_, _)
SeqsUpTo(cs, n) ==
    IF n = 0 THEN {<<>>}
    ELSE LET shorter == SeqsUpTo(cs, n - 1)
         IN  shorter \cup {Append(t, c) : t \in shorter, c \in cs}

\* concatenation of a sequence of strings
RECURSIVE Concat(_)
Concat(ss) == IF ss = <<>> THEN <<>> ELSE Head(ss) \o Concat(Tail(ss))

MaxPorts == 2

MaxPathLen == 3

\* scheme prefixes of the URLs handed to normalize_url
SchemePrefixes == {<<>>, HTTPS \o <<":">>, HTTP \o <<":">>}

\* netlocs: none, or the host h followed by at most MaxPorts port suffixes
NetlocParts ==
    {<<>>} \cup
    {<<"/", "/", "h">> \o Concat(ps) : ps \in SeqsUpTo({P80, P443, <<":", "8">>}, MaxPorts)}

PathParts == SeqsUpTo({"/", "a", ";"}, MaxPathLen)

QueryParts == {<<>>, <<"?">>, <<"?", "q">>, <<"?", "/">>}

FragmentParts == {<<>>, <<"#">>, <<"#", "/">>}

NormInputs ==
    {s \o n \o p \o q \o f : s \in SchemePrefixes, n \in NetlocParts,
                             p \in PathParts, q \in QueryParts, f \in FragmentParts}

----------------------------------------------------------------------------
(* The crawl variables of a specification that runs no crawl *)

NoCrawl ==
    /\ opts = <<>>
    /\ base_url = <<>>
    /\ origin = <<>>
    /\ disallowed_patterns = <<>>
    /\ delay = 0
    /\ to_visit = <<>>
    /\ visited = {}
    /\ results = <<>>
    /\ gets = <<>>
    /\ aux_gets = <<>>
    /\ last = [act |-> "none", url |-> <<>>, slept |-> FALSE]

----------------------------------------------------------------------------
(* normalize_url applied once, then to its own result *)

InitNorm ==
    /\ pc = "normalize_url"
    /\ arg \in [url : NormInputs]
    /\ ret = <<>>
    /\ NoCrawl

NormalizeOnce ==
    /\ pc = "normalize_url"
    /\ ret' = <<normalize_url(arg.url, <<>>)>>
    /\ pc' = "normalize_again"
    /\ UNCHANGED <<arg, crawlVars>>

NormalizeAgain ==
    /\ pc = "normalize_again"
    /\ ret' = Append(ret, normalize_url(ret[1], <<>>))
    /\ pc' = "returned"
    /\ UNCHANGED <<arg, crawlVars>>

NextNorm == NormalizeOnce \/ NormalizeAgain

SpecNorm == InitNorm /\ [][NextNorm]_vars

\* C7: URL normalization is idempotent: for every input URL u,
\* normalize_url(normalize_url(u)) = normalize_url(u).
C7_Idempotent == pc = "returned" => ret[2] = ret[1]

----------------------------------------------------------------------------
(* robots.py *)

WhiteSpace == {" ", "\t", "\n", "\r", "\f"}

\* s.lstrip()
LStripSpace(s) ==
    Drop(s, CHOOSE k \in 0..Len(s) :
                /\ \A j \in 1..k : s[j] \in WhiteSpace
                /\ (k = Len(s) \/ s[k + 1] \notin WhiteSpace))

\* s.rstrip()
RStripSpace(s) ==
    SubSeq(s, 1, CHOOSE k \in 0..Len(s) :
                     /\ \A j \in (k + 1)..Len(s) : s[j] \in WhiteSpace
                     /\ (k = 0 \/ s[k] \notin WhiteSpace))

\* s.strip(): leading and trailing whitespace removed
Strip(s) == RStripSpace(LStripSpace(s))

\* s.split(c, 1)[0]
BeforeFirst(s, c) == IF HasChar(s, c) THEN Take(s, Find(s, c) - 1) ELSE s

\* s.split(c, 1)[1], for an s that holds c
AfterFirst(s, c) == Drop(s, Find(s, c))

\* the characters re.escape puts a backslash before
re_special_chars ==
    {"(", ")", "[", "]", "{", "}", "?", "*", "+", "-", "|", "^", "$", "\\",
     ".", "&", "~", "#", " ", "\t", "\n"}

\* re.escape(s)
RECURSIVE re_escape(_)
re_escape(s) ==
    IF s = <<>> THEN <<>>
    ELSE (IF Head(s) \in re_special_chars THEN <<"\\", Head(s)>> ELSE <<Head(s)>>)
         \o re_escape(Tail(s))

\* s.replace(old, new): leftmost occurrences, not overlapping
RECURSIVE Replace(_, _, _)
Replace(s, old, new) ==
    IF s = <<>> THEN <<>>
    ELSE IF StartsWith(s, old) THEN new \o Replace(Drop(s, Len(old)), old, new)
    ELSE <<Head(s)>> \o Replace(Tail(s), old, new)

\* the regular expression compiled from one Disallow value (robots.py line 59)
compile_pattern(path) == Replace(re_escape(path), <<"\\", "*">>, <<".", "*">>)

\* length of the first atom of a regular expression: \c, or one character
AtomLen(pat) == IF Head(pat) = "\\" /\ Len(pat) >= 2 THEN 2 ELSE 1

\* does the atom (a regex of AtomLen characters) match the character c
AtomMatches(atom, c) ==
    IF Len(atom) = 2 THEN atom[2] = c
    ELSE IF atom[1] = "." THEN c # "\n"
    ELSE atom[1] = c

\* re.match(pattern, s) is not None, for patterns made of literals, escaped
\* characters, '.' and the quantifier '*': the pattern matches a prefix of s
RECURSIVE re_match(_, _)
RECURSIVE MatchAtom(_, _, _)
MatchAtom(atom, rest, s) ==
    IF rest # <<>> /\ Head(rest) = "*"
    THEN \E k \in 0..Len(s) :
            /\ \A j \in 1..k : AtomMatches(atom, s[j])
            /\ re_match(Tail(rest), Drop(s, k))
    ELSE /\ s # <<>>
         /\ AtomMatches(atom, Head(s))
         /\ re_match(rest, Tail(s))

re_match(pattern, s) ==
    IF pattern = <<>> THEN TRUE
    ELSE MatchAtom(Take(pattern, AtomLen(pattern)), Drop(pattern, AtomLen(pattern)), s)

\* re.search(pattern, s) is not None: the pattern matches somewhere in s
re_search(pattern, s) == \E k \in 0..Len(s) : re_match(pattern, Drop(s, k))

\* is_path_allowed: an empty path is "/", and a path starts with "/"
RootedPath(path) ==
    IF path = <<>> THEN <<"/">>
    ELSE IF Head(path) # "/" THEN <<"/">> \o path
    ELSE path

\* the loop of is_path_allowed, with re.search in place of re.match
no_pattern_found(path, patterns) ==
    \A i \in 1..Len(patterns) : ~re_search(patterns[i], path)

\* the loop of is_path_allowed: no pattern matches the path
no_pattern_matches(path, patterns) ==
    \A i \in 1..Len(patterns) : ~re_match(patterns[i], path)

\* is_path_allowed(path, disallowed_patterns)
is_path_allowed(path, patterns) == no_pattern_matches(RootedPath(path), patterns)

DEFAULT_CRAWL_DELAY == 5

\* block_delay = None
None == 0 - 1000

UA_PREFIX == <<"u", "s", "e", "r", "-", "a", "g", "e", "n", "t", ":">>

DISALLOW_PREFIX == <<"d", "i", "s", "a", "l", "l", "o", "w", ":">>

DELAY_PREFIX == <<"c", "r", "a", "w", "l", "-", "d", "e", "l", "a", "y", ":">>

\* value of the digit character c
DigitValue(c) == (CHOOSE i \in 1..10 : DigitChars[i] = c) - 1

\* int(s) for a non-empty string of digits
RECURSIVE IntOf(_)
IntOf(s) ==
    IF s = <<>> THEN 0
    ELSE 10 * IntOf(SubSeq(s, 1, Len(s) - 1)) + DigitValue(s[Len(s)])

AllDigits(s) == s # <<>> /\ \A i \in 1..Len(s) : s[i] \in Digits

\* the strings float() is applied to in the model: digits, or digits with one
\* decimal; anything else stands for a string float() rejects with ValueError
IsFloat(s) ==
    \/ AllDigits(s)
    \/ /\ Len(s) >= 3
       /\ s[Len(s) - 1] = "."
       /\ s[Len(s)] \in Digits
       /\ AllDigits(SubSeq(s, 1, Len(s) - 2))

\* float(s), in tenths of a second
FloatOf(s) ==
    IF AllDigits(s) THEN 10 * IntOf(s)
    ELSE 10 * IntOf(SubSeq(s, 1, Len(s) - 2)) + DigitValue(s[Len(s)])

\* value.split()[0] of a stripped string: its first whitespace-free token
FirstToken(s) ==
    LET w == FindAnyFrom(s, WhiteSpace, 1)
    IN  IF w = 0 THEN s ELSE Take(s, w - 1)

\* flush_block() without the found_star_block test: every * block is honored
flush_every_star_block(st) ==
    LET honored == /\ st.current_agents # <<>>
                   /\ \E i \in 1..Len(st.current_agents) : st.current_agents[i] = <<"*">>
    IN  [st EXCEPT
            !.disallowed = IF honored THEN st.block_disallowed ELSE @,
            !.crawl_delay = IF honored /\ st.block_delay # None
                            THEN st.block_delay ELSE @,
            !.found_star_block = IF honored THEN TRUE ELSE @,
            !.block_disallowed = <<>>,
            !.block_delay = None]

\* flush_block() of parse_robots, on the state st of the parser;
\* current_agents is None (written <<>>) or a one-element list
flush_block(st) ==
    LET honored == /\ st.current_agents # <<>>
                   /\ \E i \in 1..Len(st.current_agents) : st.current_agents[i] = <<"*">>
                   /\ ~st.found_star_block
    IN  [st EXCEPT
            !.disallowed = IF honored THEN st.block_disallowed ELSE @,
            !.crawl_delay = IF honored /\ st.block_delay # None
                            THEN st.block_delay ELSE @,
            !.found_star_block = IF honored THEN TRUE ELSE @,
            !.block_disallowed = <<>>,
            !.block_delay = None]

\* a Disallow line with the value path (lines 57-60)
disallow_line(st, path) ==
    IF path # <<>>
    THEN [st EXCEPT !.block_disallowed = Append(@, compile_pattern(path))]
    ELSE st

\* a Crawl-delay line with the value token (lines 62-66)
crawl_delay_line(st, value) ==
    IF IsFloat(value) THEN [st EXCEPT !.block_delay = FloatOf(value)] ELSE st

\* a line without its comment, stripped, and its lower-case form (lines 50-66)
directive_line(st, line, low) ==
    IF line = <<>> THEN st
    ELSE IF StartsWith(low, UA_PREFIX)
    THEN [flush_block(st) EXCEPT
             !.current_agents = <<Lower(Strip(AfterFirst(line, ":")))>>]
    ELSE IF st.current_agents = <<>> THEN st
    ELSE IF StartsWith(low, DISALLOW_PREFIX)
    THEN disallow_line(st, Strip(AfterFirst(line, ":")))
    ELSE IF StartsWith(low, DELAY_PREFIX)
    THEN crawl_delay_line(st, FirstToken(Strip(AfterFirst(line, ":"))))
    ELSE st

\* line.split("#", 1)[0].strip()
without_comment(raw) == Strip(BeforeFirst(raw, "#"))

\* one iteration of the loop of parse_robots over the lines
parse_line(st, raw) == directive_line(st, without_comment(raw), Lower(without_comment(raw)))

RECURSIVE parse_lines(_, _)
parse_lines(st, lines) ==
    IF lines = <<>> THEN st
    ELSE parse_lines(parse_line(st, Head(lines)), Tail(lines))

\* the locals of parse_robots before its loop
parser_start ==
    [disallowed |-> <<>>, crawl_delay |-> 0, current_agents |-> <<>>,
     block_disallowed |-> <<>>, block_delay |-> None, found_star_block |-> FALSE]

\* return disallowed, crawl_delay
parser_result(st) == [disallowed |-> st.disallowed, crawl_delay |-> st.crawl_delay]

\* parse_robots(robots_txt); robots_txt is given as robots_txt.splitlines()
parse_robots(lines) == parser_result(flush_block(parse_lines(parser_start, lines)))

\* get_robots_policy: the default delay replaces a delay that is not positive
with_default_delay(parsed) ==
    [disallowed |-> parsed.disallowed,
     crawl_delay |-> IF parsed.crawl_delay <= 0 THEN DEFAULT_CRAWL_DELAY
                     ELSE parsed.crawl_delay]

\* get_robots_policy(site_origin); text is what fetch_robots_txt returned
\* ("" after a network error or a status other than 200)
get_robots_policy(text) == with_default_delay(parse_robots(text))

----------------------------------------------------------------------------
(* robots.txt parsed, then a path checked against the policy *)

MaxDisallow == 1

MaxPatLen == 2

MaxRobotPathLen == 3

PRIVATE == <<"/", "p", "r", "i", "v", "a", "t", "e">>

PRIVATE_X == PRIVATE \o <<"/", "x">>

PUBLIC == <<"/", "p", "u", "b", "l", "i", "c">>

\* the values written after "Disallow:" ("" is an empty Disallow line)
DisallowValues ==
    {<<>>, PRIVATE} \cup {<<"/">> \o t : t \in SeqsUpTo({"a", "*", "."}, MaxPatLen)}

RobotPaths ==
    {PRIVATE_X, PUBLIC} \cup {<<"/">> \o t : t \in SeqsUpTo({"a", "/", "."}, MaxRobotPathLen)}

UA_LINE(agent) ==
    <<"U", "s", "e", "r", "-", "a", "g", "e", "n", "t", ":", " ">> \o agent

DISALLOW_LINE(value) ==
    <<"D", "i", "s", "a", "l", "l", "o", "w", ":", " ">> \o value

\* robots.txt: an optional block for the agent x that disallows everything,
\* then the block for * with one Disallow line per value
RobotsTxt(values, other_first) ==
    (IF other_first THEN <<UA_LINE(<<"x">>), DISALLOW_LINE(<<"/">>)>> ELSE <<>>)
    \o <<UA_LINE(<<"*">>)>>
    \o [i \in 1..Len(values) |-> DISALLOW_LINE(values[i])]

InitRobots ==
    /\ pc = "get_robots_policy"
    /\ arg \in [values : SeqsUpTo(DisallowValues, MaxDisallow),
                other_first : BOOLEAN]
    /\ ret = <<>>
    /\ NoCrawl

GetPolicy ==
    /\ pc = "get_robots_policy"
    /\ ret' = [patterns |-> get_robots_policy(RobotsTxt(arg.values, arg.other_first)).disallowed]
    /\ pc' = "is_path_allowed"
    /\ UNCHANGED <<arg, crawlVars>>

CheckPath ==
    /\ pc = "is_path_allowed"
    /\ \E path \in RobotPaths :
          ret' = [patterns |-> ret.patterns,
                  path |-> path,
                  allowed |-> is_path_allowed(path, ret.patterns)]
    /\ pc' = "returned"
    /\ UNCHANGED <<arg, crawlVars>>

NextRobots == GetPolicy \/ CheckPath

SpecRobots == InitRobots /\ [][NextRobots]_vars

\* the Disallow value d, read as a path prefix in which * stands for any
\* substring, matches the path p at its start
RECURSIVE PrefixMatches(_, _)
PrefixMatches(d, p) ==
    IF d = <<>> THEN TRUE
    ELSE IF Head(d) = "*"
    THEN \E k \in 0..Len(p) : PrefixMatches(Tail(d), Drop(p, k))
    ELSE p # <<>> /\ Head(p) = Head(d) /\ PrefixMatches(Tail(d), Tail(p))

\* D: the Disallow values of the * block (an empty Disallow line has no value)
HonoredValues == {arg.values[i] : i \in 1..Len(arg.values)} \ {<<>>}

\* C8: a path is disallowed exactly when some Disallow value of the honored
\* * block matches it anchored at its start, * matching any substring; every
\* path is allowed when there are no values; with Disallow: /private,
\* /private/x is disallowed and /public is allowed.
C8_DisallowedIffPrefixMatch ==
    pc = "returned" =>
        /\ ret.allowed = ~(\E d \in HonoredValues : PrefixMatches(d, ret.path))
        /\ (HonoredValues = {} => ret.allowed)
        /\ (arg.values = <<PRIVATE>> /\ ret.path = PRIVATE_X => ~ret.allowed)
        /\ (arg.values = <<PRIVATE>> /\ ret.path = PUBLIC => ret.allowed)

\* C8 witness: a value with a wildcard disallowed a path that it matches from
\* the start
C8_Witness ==
    /\ pc = "returned"
    /\ arg.values = << <<"/", "*", ".">> >>
    /\ ret.path = <<"/", "a", "/", ".">>
    /\ ~ret.allowed

----------------------------------------------------------------------------
(* sitemap.py *)

(* What the network answers to a GET of a sitemap: status is 200, another    *)
(* status, or 0 for a request that raises; parses tells whether ET.fromstring *)
(* accepts the body; elems are the <sitemap><loc> and <url><loc> elements of *)
(* the document in document order, each with its tag, whether it is in the   *)
(* sitemaps.org namespace, and its text.                                     *)
NoAnswer == [status |-> 0, parses |-> FALSE, elems |-> <<>>]

\* the answer of the network net to a GET of url
http_get(net, url) == IF url \in DOMAIN net THEN net[url] ELSE NoAnswer

\* root.findall(".//sm:<tag>/sm:loc", SITEMAP_NS) (ns) and
\* root.findall(".//<tag>/loc") (not ns)
findall(root, tag, ns) == SelectSeq(root.elems, LAMBDA e : e.tag = tag /\ e.ns = ns)

\* the elements found with the namespace, or without it when that finds nothing
find_locs(root, tag) ==
    IF findall(root, tag, TRUE) # <<>> THEN findall(root, tag, TRUE)
    ELSE findall(root, tag, FALSE)

InSeq(x, q) == \E i \in 1..Len(q) : q[i] = x

\* the loop of _urls_from_sitemap_xml over url_locs (lines 73-79); u is the
\* normalized text of the first of them
RECURSIVE collect_locs(_, _, _, _)
RECURSIVE collect_loc(_, _, _, _, _)
collect_loc(url_locs, site_origin, max_urls, result, u) ==
    IF Head(url_locs).text # <<>> /\ is_same_origin(u, site_origin) /\ ~InSeq(u, result)
    THEN IF Len(result) + 1 >= max_urls
         THEN Append(result, u)
         ELSE collect_locs(Tail(url_locs), site_origin, max_urls, Append(result, u))
    ELSE collect_locs(Tail(url_locs), site_origin, max_urls, result)

collect_locs(url_locs, site_origin, max_urls, result) ==
    IF url_locs = <<>> THEN result
    ELSE collect_loc(url_locs, site_origin, max_urls, result,
                     normalize_url(Strip(Head(url_locs).text), <<>>))

\* _urls_from_sitemap_xml, once the document r is there (lines 68-80)
urls_of_document(r, site_origin, max_urls) ==
    IF r.status # 200 \/ ~r.parses THEN <<>>
    ELSE collect_locs(find_locs(r, "url"), site_origin, max_urls, <<>>)

\* _urls_from_sitemap_xml(source_url, site_origin, timeout, max_urls, root=None):
\* the document is fetched first
_urls_from_sitemap_xml(net, source_url, site_origin, max_urls) ==
    urls_of_document(http_get(net, source_url), site_origin, max_urls)

\* get_sitemap_url(base_url): urljoin(origin + "/", "sitemap.xml")
SITEMAP_XML == <<"s", "i", "t", "e", "m", "a", "p", ".", "x", "m", "l">>

get_sitemap_url(url) == urljoin(get_origin(url) \o <<"/">>, SITEMAP_XML)

\* sitemap_locs[-1]
last_child(sitemap_locs) == sitemap_locs[Len(sitemap_locs)]

\* first_loc = sitemap_locs[0]: a sitemap index is followed into one child
first_child(sitemap_locs) == sitemap_locs[1]

\* fetch_sitemap_urls, once sitemap.xml is parsed into r and its
\* <sitemap><loc> elements are found (lines 36-44)
follow_sitemap(net, site_origin, max_urls, url, r, sitemap_locs) ==
    IF sitemap_locs # <<>> /\ first_child(sitemap_locs).text # <<>>
    THEN [urls |-> _urls_from_sitemap_xml(net, Strip(first_child(sitemap_locs).text),
                                          site_origin, max_urls),
          requests |-> <<url, Strip(first_child(sitemap_locs).text)>>]
    ELSE [urls |-> urls_of_document(r, site_origin, max_urls),
          requests |-> <<url>>]

\* fetch_sitemap_urls, once sitemap.xml at url answered r (lines 26-44)
sitemap_answered(net, site_origin, max_urls, url, r) ==
    IF r.status # 200 \/ ~r.parses
    THEN [urls |-> <<>>, requests |-> <<url>>]
    ELSE follow_sitemap(net, site_origin, max_urls, url, r, find_locs(r, "sitemap"))

\* fetch_sitemap_urls, once the URL of sitemap.xml is known
sitemap_at(net, site_origin, max_urls, url) ==
    sitemap_answered(net, site_origin, max_urls, url, http_get(net, url))

\* fetch_sitemap_urls(site_origin, timeout, max_urls): the URLs returned and
\* the GETs issued
fetch_sitemap_urls(net, site_origin, max_urls) ==
    sitemap_at(net, site_origin, max_urls, get_sitemap_url(site_origin))

----------------------------------------------------------------------------
(* fetch_sitemap_urls on a site whose sitemap.xml is a sitemap index *)

MaxLocs == 2

MaxChildren == 2

ORIGIN_H == HTTPS \o <<":", "/", "/", "h">>

ORIGIN_X == HTTPS \o <<":", "/", "/", "x">>

URL_A == ORIGIN_H \o <<"/", "a">>

URL_B == ORIGIN_H \o <<"/", "b">>

URL_P == ORIGIN_H \o <<"/", "p">>

URL_XA == ORIGIN_X \o <<"/", "a">>

CHILD_1 == ORIGIN_H \o <<"/", "1">>

CHILD_2 == ORIGIN_H \o <<"/", "2">>

\* the texts of the <url><loc> elements of a child sitemap
LocTexts == {URL_A \o <<"/">>, URL_B, URL_XA}

\* the texts of the <sitemap><loc> elements of the index
ChildTexts == {CHILD_1, CHILD_2, <<>>}

Elems(tag, ns, texts) == [i \in 1..Len(texts) |-> [tag |-> tag, ns |-> ns, text |-> texts[i]]]

\* what a child URL answers: a bad status, a body that is no XML, or a URL set
ChildAnswers(ns) ==
    {[status |-> 404, parses |-> FALSE, elems |-> <<>>],
     [status |-> 200, parses |-> FALSE, elems |-> <<>>]}
    \cup {[status |-> 200, parses |-> TRUE, elems |-> Elems("url", ns, texts)] :
            texts \in SeqsUpTo(LocTexts, MaxLocs)}

\* what the children after the first answer: a bad status, or a URL set
LaterAnswers(ns) ==
    {[status |-> 404, parses |-> FALSE, elems |-> <<>>],
     [status |-> 200, parses |-> TRUE, elems |-> Elems("url", ns, <<URL_B>>)],
     [status |-> 200, parses |-> TRUE,
      elems |-> Elems("url", ns, <<URL_A \o <<"/">>, URL_XA>>)]}

\* the lists of children of an index: at least two entries
ChildLists == {cs \in SeqsUpTo(ChildTexts, MaxChildren) : Len(cs) >= 2}

InitSitemap ==
    /\ pc = "fetch_sitemap_urls"
    /\ \E ns \in BOOLEAN, cs \in ChildLists, max_urls \in 1..2 :
       \E a1 \in ChildAnswers(ns), a2 \in LaterAnswers(ns) :
          arg = [site_origin |-> ORIGIN_H,
                 max_urls |-> max_urls,
                 children |-> cs,
                 net |-> (get_sitemap_url(ORIGIN_H) :>
                              [status |-> 200, parses |-> TRUE,
                               elems |-> Elems("sitemap", ns, cs)])
                         @@ (cs[1] :> a1)
                         @@ [c \in ({cs[i] : i \in 2..Len(cs)} \ {cs[1]}) |-> a2]]
    /\ ret = <<>>
    /\ NoCrawl

FetchSitemapUrls ==
    /\ pc = "fetch_sitemap_urls"
    /\ ret' = fetch_sitemap_urls(arg.net, arg.site_origin, arg.max_urls)
    /\ pc' = "returned"
    /\ UNCHANGED <<arg, crawlVars>>

NextSitemap == FetchSitemapUrls

SpecSitemap == InitSitemap /\ [][NextSitemap]_vars

\* the normalized <url><loc> texts of the document that the URL c answers with
UrlSetOf(c) ==
    LET a == http_get(arg.net, c)
    IN  IF a.status = 200 /\ a.parses
        THEN {normalize_url(Strip(a.elems[i].text), <<>>) : i \in 1..Len(a.elems)}
        ELSE {}

\* C9: when sitemap.xml is a sitemap index listing two or more children, only
\* the first child is fetched and only URLs of the first child's URL set are
\* returned, so no URL found only in a later child is returned; the result is
\* empty if the first child cannot be fetched or parsed.
C9_FirstChildOnly ==
    pc = "returned" =>
        /\ \A i \in 1..Len(ret.requests) :
              ret.requests[i] \in {get_sitemap_url(arg.site_origin), arg.children[1]}
        /\ \A i \in 1..Len(ret.urls) : ret.urls[i] \in UrlSetOf(arg.children[1])
        /\ \A k \in 2..Len(arg.children) : \A i \in 1..Len(ret.urls) :
              ret.urls[i] \notin (UrlSetOf(arg.children[k]) \ UrlSetOf(arg.children[1]))
        /\ (UrlSetOf(arg.children[1]) = {} => ret.urls = <<>>)

\* C9 witness: the second child lists a URL the first does not, and the result
\* is the first child's URL
C9_Witness ==
    /\ pc = "returned"
    /\ arg.children = <<CHILD_1, CHILD_2>>
    /\ UrlSetOf(CHILD_1) = {URL_A}
    /\ UrlSetOf(CHILD_2) = {URL_B}
    /\ ret.urls = <<URL_A>>
    /\ ret.requests = <<get_sitemap_url(ORIGIN_H), CHILD_1>>

----------------------------------------------------------------------------
(* crawler.py *)

MAILTO == <<"m", "a", "i", "l", "t", "o", ":">>

TEL == <<"t", "e", "l", ":">>

JAVASCRIPT == <<"j", "a", "v", "a", "s", "c", "r", "i", "p", "t", ":">>

\* _extract_metadata(html, url): the title falls back to the URL
_extract_metadata(html, url) ==
    [url |-> url,
     title |-> IF Strip(html.title) = <<>> THEN url ELSE Strip(html.title),
     description |-> Strip(html.description)]

\* the hrefs that _extract_links does not skip, stripped
kept_hrefs(hrefs) ==
    SelectSeq([i \in 1..Len(hrefs) |-> Strip(hrefs[i])],
              LAMBDA h : /\ h # <<>>
                         /\ ~StartsWith(h, <<"#">>)
                         /\ ~StartsWith(h, MAILTO)
                         /\ ~StartsWith(h, TEL)
                         /\ ~StartsWith(h, JAVASCRIPT))

\* the loop of _extract_links over the hrefs it keeps (lines 67-70); u is
\* the first of them, normalized
RECURSIVE collect_links(_, _, _, _)
RECURSIVE collect_link(_, _, _, _, _)
collect_link(hrefs, page_url, same_origin, out, u) ==
    collect_links(Tail(hrefs), page_url, same_origin,
                  IF is_same_origin(u, same_origin) /\ ~InSeq(u, out)
                  THEN Append(out, u) ELSE out)

collect_links(hrefs, page_url, same_origin, out) ==
    IF hrefs = <<>> THEN out
    ELSE collect_link(hrefs, page_url, same_origin, out,
                      normalize_url(Head(hrefs), page_url))

\* _extract_links(html, base_url, same_origin)
_extract_links(html, page_url, same_origin) ==
    collect_links(kept_hrefs(html.hrefs), page_url, same_origin, <<>>)

\* some href makes normalize_url raise
some_href_raises(hrefs, page_url) ==
    \E i \in 1..Len(hrefs) : normalize_url_raises(hrefs[i], page_url)

\* _extract_links raises the ValueError of normalize_url: nothing catches it
_extract_links_raises(html, page_url) ==
    some_href_raises(kept_hrefs(html.hrefs), page_url)

\* path_allowed(url), the closure of crawl_site
path_allowed(url, patterns) ==
    is_path_allowed(Or(urlparse(url, <<>>).path, <<"/">>), patterns)

\* the loop of crawl_site over the links of a page (lines 136-140)
\* the loop over the links without the test `link not in to_visit`
RECURSIVE enqueue_queued_again(_, _, _, _)
enqueue_queued_again(links, seen, queue, patterns) ==
    IF links = <<>> THEN queue
    ELSE enqueue_queued_again(Tail(links), seen,
                              IF /\ Head(links) \notin seen
                                 /\ path_allowed(Head(links), patterns)
                              THEN Append(queue, Head(links)) ELSE queue,
                              patterns)

RECURSIVE enqueue_links(_, _, _, _)
enqueue_links(links, seen, queue, patterns) ==
    IF links = <<>> THEN queue
    ELSE enqueue_links(Tail(links), seen,
                       IF /\ Head(links) \notin seen
                          /\ ~InSeq(Head(links), queue)
                          /\ path_allowed(Head(links), patterns)
                       THEN Append(queue, Head(links)) ELSE queue,
                       patterns)

\* the sitemap URLs that pass path_allowed (lines 96-98)
allowed_seeds(urls, patterns) == SelectSeq(urls, LAMBDA u : path_allowed(u, patterns))

\* a loop condition that lets one page too many through
loop_continues_off_by_one == to_visit # <<>> /\ Len(results) <= opts.max_pages

\* while to_visit and len(results) < opts.max_pages
loop_continues == to_visit # <<>> /\ Len(results) < opts.max_pages

\* visited after a fetch that forgets the post-redirect URL
visited_without_final(url, final_url) == visited \cup {url}

\* visited after a successful fetch of url that ended at final_url
\* (lines 113 and 124-126)
visited_after_fetch(url, final_url) ==
    (visited \cup {url}) \cup (IF final_url # url THEN {final_url} ELSE {})

\* visited after a failed fetch that forgets the URL
visited_forgets_failed(url) == visited

\* visited after a fetch of url that failed (line 113, then continue)
visited_after_failure(url) == visited \cup {url}

----------------------------------------------------------------------------
(* One crawl: crawl_site(base_url, options) *)

MaxPagesBound == 2

MaxLinks == 1

CRAWL_DELAY_LINE(value) ==
    <<"C", "r", "a", "w", "l", "-", "d", "e", "l", "a", "y", ":", " ">> \o value

\* what robots.txt may hold: nothing (or unavailable), a rule for /p, or a
\* rule for everything with a Crawl-delay of 2 seconds
RobotsTexts ==
    {<<>>,
     <<UA_LINE(<<"*">>), DISALLOW_LINE(<<"/", "p">>)>>,
     <<UA_LINE(<<"*">>), DISALLOW_LINE(<<"/">>), CRAWL_DELAY_LINE(<<"2">>)>>}

EmptyNet == [u \in {} |-> NoAnswer]

\* what the sitemap URLs may answer: nothing, a URL set, or an index
SitemapNets ==
    {EmptyNet,
     get_sitemap_url(ORIGIN_H) :>
         [status |-> 200, parses |-> TRUE,
          elems |-> Elems("url", TRUE, <<URL_A \o <<"/">>, URL_A, URL_P, URL_XA>>)],
     (get_sitemap_url(ORIGIN_H) :>
         [status |-> 200, parses |-> TRUE,
          elems |-> Elems("sitemap", FALSE, <<CHILD_1, CHILD_2>>)])
     @@ (CHILD_1 :> [status |-> 200, parses |-> TRUE,
                     elems |-> Elems("url", FALSE, <<URL_B>>)])}

\* the href values of the anchors of a page: an absolute URL with a trailing
\* slash, a path (the one RobotsTexts may disallow), a URL of another
\* origin, and a malformed one (an unbalanced bracket in the host)
Hrefs == {URL_A \o <<"/">>, <<"/", "p">>, URL_XA, <<"/", "/", "[">>}

\* r.url after redirects, for a request of url: the URL itself, or the
\* target of a redirect
FinalUrls(url) == {url, URL_P \o <<"/">>, URL_XA}

\* the bodies of the pages
Pages ==
    [title : {<<>>}, description : {<<>>}, hrefs : SeqsUpTo(Hrefs, MaxLinks)]

InitCrawl ==
    /\ pc = "seeding"
    /\ arg = [base_url |-> ORIGIN_H \o <<"/">>]
    /\ ret = <<>>
    /\ opts \in [max_pages : 1..MaxPagesBound,
                 crawl_delay : {0, 10},
                 respect_robots : BOOLEAN,
                 use_sitemap : BOOLEAN,
                 sitemap_max_urls : {500}]
    /\ base_url = <<>>
    /\ origin = <<>>
    /\ disallowed_patterns = <<>>
    /\ delay = 0
    /\ to_visit = <<>>
    /\ visited = {}
    /\ results = <<>>
    /\ gets = <<>>
    /\ aux_gets = <<>>
    /\ last = [act |-> "none", url |-> <<>>, slept |-> FALSE]

ROBOTS_TXT == <<"r", "o", "b", "o", "t", "s", ".", "t", "x", "t">>

\* get_robots_url(base_url): urljoin(origin + "/", "robots.txt")
get_robots_url(url) == urljoin(get_origin(url) \o <<"/">>, ROBOTS_TXT)

\* the delay crawl_site sleeps for (lines 81-85)
effective_delay(policy) ==
    IF opts.respect_robots /\ policy.crawl_delay > 0
    THEN policy.crawl_delay
    ELSE opts.crawl_delay

\* the patterns crawl_site checks paths against (lines 80-83)
effective_patterns(policy) == IF opts.respect_robots THEN policy.disallowed ELSE <<>>

\* the GET of robots.txt, issued only when respect_robots is set
robots_requests(o) == IF opts.respect_robots THEN <<get_robots_url(o)>> ELSE <<>>

\* lines 75-104 when use_sitemap is set: robots policy, sitemap seeds, fallback
Seeding ==
    /\ pc = "seeding"
    /\ opts.use_sitemap
    /\ \E robots_txt \in RobotsTexts, net \in SitemapNets :
       \E b \in {normalize_url(arg.base_url, <<>>)} :
       \E o \in {get_origin(b)} :
       \E policy \in {get_robots_policy(robots_txt)} :
       \E sm \in {fetch_sitemap_urls(net, o, opts.sitemap_max_urls)} :
       \E seeds \in {allowed_seeds(sm.urls, effective_patterns(policy))} :
          /\ base_url' = b
          /\ origin' = o
          /\ disallowed_patterns' = effective_patterns(policy)
          /\ delay' = effective_delay(policy)
          /\ to_visit' = IF seeds = <<>> THEN <<b>> ELSE seeds
          /\ aux_gets' = robots_requests(o) \o sm.requests
    /\ pc' = "visiting"
    /\ last' = [act |-> "seed", url |-> <<>>, slept |-> FALSE]
    /\ UNCHANGED <<arg, ret, opts, visited, results, gets>>

\* lines 75-99 when use_sitemap is not set: line 99 reads sitemap_urls, which
\* was never assigned, and raises UnboundLocalError
SeedingRaises ==
    /\ pc = "seeding"
    /\ ~opts.use_sitemap
    /\ \E robots_txt \in RobotsTexts :
       \E b \in {normalize_url(arg.base_url, <<>>)} :
       \E o \in {get_origin(b)} :
       \E policy \in {get_robots_policy(robots_txt)} :
          /\ base_url' = b
          /\ origin' = o
          /\ disallowed_patterns' = effective_patterns(policy)
          /\ delay' = effective_delay(policy)
          /\ aux_gets' = robots_requests(o)
    /\ pc' = "raised"
    /\ ret' = [raised |-> "UnboundLocalError", in |-> "seeding"]
    /\ last' = [act |-> "raise", url |-> <<>>, slept |-> FALSE]
    /\ UNCHANGED <<arg, opts, to_visit, visited, results, gets>>

\* lines 108-110: the head of the frontier is already visited
SkipVisited ==
    /\ pc = "visiting"
    /\ loop_continues
    /\ Head(to_visit) \in visited
    /\ to_visit' = Tail(to_visit)
    /\ last' = [act |-> "skip_visited", url |-> Head(to_visit), slept |-> FALSE]
    /\ UNCHANGED <<pc, arg, ret, opts, base_url, origin, disallowed_patterns,
                   delay, visited, results, gets, aux_gets>>

\* lines 108-112: the head of the frontier is disallowed by robots.txt
SkipDisallowed ==
    /\ pc = "visiting"
    /\ loop_continues
    /\ Head(to_visit) \notin visited
    /\ ~path_allowed(Head(to_visit), disallowed_patterns)
    /\ to_visit' = Tail(to_visit)
    /\ last' = [act |-> "skip_disallowed", url |-> Head(to_visit), slept |-> FALSE]
    /\ UNCHANGED <<pc, arg, ret, opts, base_url, origin, disallowed_patterns,
                   delay, visited, results, gets, aux_gets>>

\* lines 108-129: the GET raises (status 0) or answers a status other than 200
FetchFails ==
    /\ pc = "visiting"
    /\ loop_continues
    /\ Head(to_visit) \notin visited
    /\ path_allowed(Head(to_visit), disallowed_patterns)
    /\ \E status \in {0, 500} :
         gets' = Append(gets, [url |-> Head(to_visit), status |-> status, final |-> <<>>])
    /\ to_visit' = Tail(to_visit)
    /\ visited' = visited_after_failure(Head(to_visit))
    /\ last' = [act |-> "fetch_failed", url |-> Head(to_visit), slept |-> FALSE]
    /\ UNCHANGED <<pc, arg, ret, opts, base_url, origin, disallowed_patterns,
                   delay, results, aux_gets>>

\* lines 108-143: the GET answers 200; the page is recorded, its links are
\* queued, and the crawl sleeps
FetchOk ==
    /\ pc = "visiting"
    /\ loop_continues
    /\ Head(to_visit) \notin visited
    /\ path_allowed(Head(to_visit), disallowed_patterns)
    /\ \E r_url \in FinalUrls(Head(to_visit)) :
       \E final_url \in {normalize_url(r_url, <<>>)} :
       \E html \in Pages :
          /\ ~_extract_links_raises(html, final_url)
          /\ gets' = Append(gets, [url |-> Head(to_visit), status |-> 200,
                                   final |-> final_url])
          /\ visited' = visited_after_fetch(Head(to_visit), final_url)
          /\ results' = Append(results, _extract_metadata(html, final_url))
          /\ to_visit' = enqueue_links(_extract_links(html, final_url, origin),
                                       visited', Tail(to_visit), disallowed_patterns)
    /\ last' = [act |-> "fetch_ok", url |-> Head(to_visit), slept |-> delay > 0]
    /\ UNCHANGED <<pc, arg, ret, opts, base_url, origin, disallowed_patterns,
                   delay, aux_gets>>

\* lines 108-136: the GET answers 200 and the page holds an href that
\* urljoin rejects; the ValueError leaves crawl_site
ExtractLinksRaises ==
    /\ pc = "visiting"
    /\ loop_continues
    /\ Head(to_visit) \notin visited
    /\ path_allowed(Head(to_visit), disallowed_patterns)
    /\ \E r_url \in FinalUrls(Head(to_visit)) :
       \E final_url \in {normalize_url(r_url, <<>>)} :
       \E html \in Pages :
          /\ _extract_links_raises(html, final_url)
          /\ gets' = Append(gets, [url |-> Head(to_visit), status |-> 200,
                                   final |-> final_url])
          /\ visited' = visited_after_fetch(Head(to_visit), final_url)
          /\ results' = Append(results, _extract_metadata(html, final_url))
    /\ to_visit' = Tail(to_visit)
    /\ pc' = "raised"
    /\ ret' = [raised |-> "ValueError", in |-> "visiting"]
    /\ last' = [act |-> "raise", url |-> Head(to_visit), slept |-> FALSE]
    /\ UNCHANGED <<arg, opts, base_url, origin, disallowed_patterns, delay, aux_gets>>

\* lines 107 and 145-146: the loop ends and results is returned
Done ==
    /\ pc = "visiting"
    /\ ~loop_continues
    /\ pc' = "done"
    /\ ret' = results
    /\ last' = [act |-> "return", url |-> <<>>, slept |-> FALSE]
    /\ UNCHANGED <<arg, opts, base_url, origin, disallowed_patterns, delay,
                   to_visit, visited, results, gets, aux_gets>>

Next ==
    \/ Seeding
    \/ SeedingRaises
    \/ SkipVisited
    \/ SkipDisallowed
    \/ FetchFails
    \/ FetchOk
    \/ ExtractLinksRaises
    \/ Done

Spec == InitCrawl /\ [][Next]_vars

----------------------------------------------------------------------------
(* Claims about one crawl *)

\* C1: for every max_pages >= 1, results never holds more than max_pages
\* records, and neither does the list returned.
C1_AtMostMaxPages ==
    /\ opts.max_pages >= 1
    /\ Len(results) <= opts.max_pages
    /\ (pc = "done" => Len(ret) <= opts.max_pages)

\* C1 witness: the crawl returned max_pages = 2 records and left URLs on the
\* frontier
C1_Witness ==
    /\ pc = "done"
    /\ opts.max_pages = 2
    /\ Len(ret) = 2
    /\ to_visit # <<>>

\* C2: a page GET is issued only for a URL that is not in visited, that was
\* not requested before, and that no earlier fetch recorded as its
\* post-redirect URL.
C2_NoRefetch ==
    [][Len(gets') > Len(gets) =>
         \A u \in {gets'[Len(gets')].url} :
            /\ u \notin visited
            /\ \A i \in 1..Len(gets) :
                  /\ gets[i].url # u
                  /\ (gets[i].status = 200 => gets[i].final # u)]_vars

\* C2 witness: a URL that was queued, then recorded as the post-redirect URL
\* of another fetch, was dequeued and skipped
C2_Witness ==
    /\ last.act = "skip_visited"
    /\ \E i \in 1..Len(gets) :
          /\ gets[i].status = 200
          /\ gets[i].final = last.url
          /\ gets[i].url # last.url
    /\ \A i \in 1..Len(gets) : gets[i].url # last.url

\* C3: whatever the pages answer (errors, bad statuses, bodies with malformed
\* href values), crawl_site does not end with an exception raised while
\* visiting.
C3_NoPageFailureRaises == ~(pc = "raised" /\ ret.in = "visiting")

\* C4: every URL on the frontier is same-origin with the root and allowed by
\* the robots policy of the crawl.
C4_FrontierAllowed ==
    pc \in {"visiting", "done", "raised"} =>
        \A i \in 1..Len(to_visit) :
            /\ is_same_origin(to_visit[i], origin)
            /\ path_allowed(to_visit[i], disallowed_patterns)

\* C5: every URL in visited is same-origin with the root and allowed by the
\* robots policy of the crawl, post-redirect URLs included.
C5_VisitedAllowed ==
    \A u \in visited :
        /\ is_same_origin(u, origin)
        /\ path_allowed(u, disallowed_patterns)

\* C6: a fetch that fails adds no record and no link to the frontier, leaves
\* the URL in visited, and the crawl goes on with the next frontier entry.
C6_FailedFetchDropped ==
    [][(Len(gets') > Len(gets) /\ gets'[Len(gets')].status # 200) =>
         /\ results' = results
         /\ to_visit' = Tail(to_visit)
         /\ gets'[Len(gets')].url \in visited'
         /\ gets'[Len(gets')].url = Head(to_visit)
         /\ pc' = "visiting"]_vars

\* C6 witness: the first fetch failed, its URL is in visited and in no
\* record, and the next frontier entry was fetched and recorded
C6_Witness ==
    /\ Len(gets) = 2
    /\ gets[1].status = 500
    /\ gets[2].status = 200
    /\ gets[1].url \in visited
    /\ Len(results) = 1
    /\ results[1].url = gets[2].final

----------------------------------------------------------------------------
(* generator.py *)

_LOCALE_LIKE ==
    {<<"e", "n">>,
     <<"d", "e">>,
     <<"f", "r">>,
     <<"e", "s">>,
     <<"i", "t">>,
     <<"p", "t">>,
     <<"j", "a">>,
     <<"z", "h">>,
     <<"k", "o">>,
     <<"n", "l">>,
     <<"p", "l">>,
     <<"r", "u">>,
     <<"t", "r">>,
     <<"e", "n", "-", "u", "s">>,
     <<"e", "n", "-", "g", "b">>,
     <<"e", "s", "-", "m", "x">>,
     <<"p", "t", "-", "b", "r">>,
     <<"z", "h", "-", "c", "n">>,
     <<"z", "h", "-", "t", "w">>,
     <<"e", "n", "-", "a", "u">>,
     <<"e", "n", "-", "i", "n">>}

_OPTIONAL_SEGMENTS ==
    {<<"l", "e", "g", "a", "l">>,
     <<"p", "r", "i", "v", "a", "c", "y">>,
     <<"t", "e", "r", "m", "s">>,
     <<"c", "o", "o", "k", "i", "e", "s">>,
     <<"c", "o", "o", "k", "i", "e">>,
     <<"o", "p", "t", "i", "o", "n", "a", "l">>}

\* printable ASCII characters in code point order
Ascii ==
    <<" ", "!", "#", "$", "%", "&", "'", "(", ")", "*", "+", ",",
      "-", ".", "/", "0", "1", "2", "3", "4", "5", "6", "7", "8", "9", ":",
      ";", "<", "=", ">", "?", "@", "A", "B", "C", "D", "E", "F", "G", "H",
      "I", "J", "K", "L", "M", "N", "O", "P", "Q", "R", "S", "T", "U", "V",
      "W", "X", "Y", "Z", "[", "\\", "]", "^", "_", "a", "b", "c",
      "d", "e", "f", "g", "h", "i", "j", "k", "l", "m", "n", "o", "p", "q",
      "r", "s", "t", "u", "v", "w", "x", "y", "z", "{", "|", "}", "~">>

\* position of a character in the order Python compares strings by
Ord(c) == CHOOSE i \in 1..Len(Ascii) : Ascii[i] = c

\* a < b for two strings
RECURSIVE StrLess(_, _)
StrLess(a, b) ==
    IF b = <<>> THEN FALSE
    ELSE IF a = <<>> THEN TRUE
    ELSE IF Head(a) # Head(b) THEN Ord(Head(a)) < Ord(Head(b))
    ELSE StrLess(Tail(a), Tail(b))

UpperChar(c) ==
    IF \E i \in 1..26 : LowerCase[i] = c
    THEN UpperCase[CHOOSE i \in 1..26 : LowerCase[i] = c]
    ELSE c

\* str.title(): a letter is upper-cased after a non-letter, lower-cased after
\* a letter
Title(s) ==
    [i \in 1..Len(s) |->
        IF i = 1 \/ s[i - 1] \notin Letters THEN UpperChar(s[i]) ELSE LowerChar(s[i])]

\* str.isalnum()
isalnum(s) == s # <<>> /\ \A i \in 1..Len(s) : s[i] \in Letters \cup Digits

NonEmpty(s) == s # <<>>

\* _escape_md(s)
_escape_md(s) ==
    Replace(Replace(Replace(s, <<"\\">>, <<"\\", "\\">>),
                    <<"[">>, <<"\\", "[">>),
            <<"]">>, <<"\\", "]">>)

\* _normalize_for_compare(url): u.endswith(("/", "")) holds for every u
_normalize_for_compare(url) == Or(RStrip(url, "/"), <<"/">>)

\* _path_segments(path): the non-empty segments, lower-cased
_path_segments(path) ==
    SelectSeq([i \in 1..Len(Split(LStrip(RStrip(Or(path, <<"/">>), "/"), "/"), "/")) |->
                  Lower(Split(LStrip(RStrip(Or(path, <<"/">>), "/"), "/"), "/")[i])],
              NonEmpty)

\* the longest segment that can name a section
MAX_SEGMENT_LEN == 30

\* _infer_section_key: the test of the second loop
names_section(seg) ==
    /\ seg \notin _LOCALE_LIKE
    /\ Len(seg) <= MAX_SEGMENT_LEN
    /\ isalnum(Replace(seg, <<"-">>, <<>>))

\* _infer_section_key: the second loop, over segments
RECURSIVE first_section_name(_)
first_section_name(segments) ==
    IF segments = <<>> THEN <<"m", "a", "i", "n">>
    ELSE IF names_section(Head(segments)) THEN Head(segments)
    ELSE first_section_name(Tail(segments))

\* _infer_section_key with the keyword test applied to the first segment only
infer_from_first_segment(segments) ==
    IF segments = <<>> THEN <<"m", "a", "i", "n">>
    ELSE IF Head(segments) \in _OPTIONAL_SEGMENTS THEN <<"o", "p", "t", "i", "o", "n", "a", "l">>
    ELSE first_section_name(segments)

\* _infer_section_key, once the path is split into segments
infer_from_segments(segments) ==
    IF segments = <<>> THEN <<"m", "a", "i", "n">>
    ELSE IF \E i \in 1..Len(segments) : segments[i] \in _OPTIONAL_SEGMENTS
    THEN <<"o", "p", "t", "i", "o", "n", "a", "l">>
    ELSE first_section_name(segments)

\* _infer_section_key(path)
_infer_section_key(path) == infer_from_segments(_path_segments(path))

OPTIONAL == <<"O", "p", "t", "i", "o", "n", "a", "l">>

\* _section_key_to_title(key, default_section)
_section_key_to_title(key, default_section) ==
    IF key = <<"m", "a", "i", "n">> THEN default_section
    ELSE IF key = <<"o", "p", "t", "i", "o", "n", "a", "l">> THEN OPTIONAL
    ELSE Title(Replace(key, <<"-">>, <<" ">>))

\* _section_for_url: the loop over options.optional_paths
under_optional_path(path, optional_paths) ==
    \E i \in 1..Len(optional_paths) :
        \/ StartsWith(path, Lower(RStrip(optional_paths[i], "/")))
        \/ path = Lower(optional_paths[i])

\* _section_for_url: the test of one (prefix, section_name) rule, p being the
\* lower-cased prefix without trailing slashes
prefix_matches(path, p) ==
    p # <<>> /\ (StartsWith(path, p \o <<"/">>) \/ path = p)

\* _section_for_url: the loop over options.segment_rules, then the default
RECURSIVE by_segment_rules(_, _, _)
by_segment_rules(segments, seg_rules, default_section) ==
    IF seg_rules = <<>> THEN default_section
    ELSE IF InSeq(Lower(Head(seg_rules)[1]), segments) THEN Head(seg_rules)[2]
    ELSE by_segment_rules(segments, Tail(seg_rules), default_section)

\* _section_for_url: the loop over options.section_rules, then the rest
RECURSIVE by_section_rules(_, _, _)
by_section_rules(path, rules, options) ==
    IF rules = <<>>
    THEN by_segment_rules(_path_segments(path), options.segment_rules,
                          options.default_section)
    ELSE IF prefix_matches(path, RStrip(Lower(Head(rules)[1]), "/"))
    THEN Head(rules)[2]
    ELSE by_section_rules(path, Tail(rules), options)

\* _section_for_url, once the path is parsed out of the URL and lower-cased
section_for_path(path, options) ==
    IF options.auto_sections
    THEN _section_key_to_title(_infer_section_key(path), options.default_section)
    ELSE IF under_optional_path(path, options.optional_paths) THEN OPTIONAL
    ELSE by_section_rules(path, options.section_rules, options)

\* _section_for_url(url, options)
_section_for_url(url, options) ==
    section_for_path(Lower(Or(urlparse(url, <<>>).path, <<"/">>)), options)

\* generate_llms_txt: the section of every page, in page order
sections_of(pages, options) ==
    [i \in 1..Len(pages) |-> _section_for_url(pages[i].url, options)]

\* generate_llms_txt: section_order, the sections in first-seen order
RECURSIVE first_seen(_, _)
first_seen(sections, section_order) ==
    IF sections = <<>> THEN section_order
    ELSE first_seen(Tail(sections),
                    IF InSeq(Head(sections), section_order) THEN section_order
                    ELSE Append(section_order, Head(sections)))

\* generate_llms_txt: groups[section], the pages of a section in page order
group(pages, options, section) ==
    SelectSeq(pages, LAMBDA p : _section_for_url(p.url, options) = section)

\* the sort key (0 if s == main_label else 1, s.lower()) of a is less than that of b
key_less(a, b, main_label) ==
    \/ a = main_label /\ b # main_label
    \/ /\ (a = main_label) = (b = main_label)
       /\ StrLess(Lower(a), Lower(b))

\* list.sort is stable: s goes after every element whose key is not greater
RECURSIVE insert_sorted(_, _, _)
insert_sorted(sorted, s, main_label) ==
    IF sorted = <<>> THEN <<s>>
    ELSE IF key_less(s, Head(sorted), main_label) THEN <<s>> \o sorted
    ELSE <<Head(sorted)>> \o insert_sorted(Tail(sorted), s, main_label)

\* ordered.sort(key=...)
RECURSIVE sorted_by_key(_, _)
sorted_by_key(ordered, main_label) ==
    IF ordered = <<>> THEN <<>>
    ELSE insert_sorted(sorted_by_key(SubSeq(ordered, 1, Len(ordered) - 1), main_label),
                       ordered[Len(ordered)], main_label)

\* ordered.remove(main_label); ordered.insert(0, main_label)
main_first(ordered, main_label) ==
    IF InSeq(main_label, ordered)
    THEN <<main_label>> \o SelectSeq(ordered, LAMBDA s : s # main_label)
    ELSE ordered

\* the section order without the sort: main first, then discovery order
ordered_unsorted(section_order, main_label) ==
    main_first(SelectSeq(section_order, LAMBDA s : s # OPTIONAL), main_label)
    \o (IF InSeq(OPTIONAL, section_order) THEN <<OPTIONAL>> ELSE <<>>)

\* generate_llms_txt: the order the sections are rendered in
ordered_sections(section_order, main_label) ==
    sorted_by_key(main_first(SelectSeq(section_order, LAMBDA s : s # OPTIONAL),
                             main_label),
                  main_label)
    \o (IF InSeq(OPTIONAL, section_order) THEN <<OPTIONAL>> ELSE <<>>)

\* the list item of a page: t is its title or its URL, desc its description
item_of(url, t, desc) ==
    <<"-", " ", "[">> \o t \o <<"]", "(">> \o url \o <<")">>
    \o (IF desc # <<>> THEN <<":", " ">> \o _escape_md(desc) ELSE <<>>)

item_line(p) == item_of(p.url, Or(Strip(p.title), p.url), Strip(p.description))

H2 == <<"#", "#", " ">>

\* the lines of one section: nothing for a section without pages
section_lines(section, items) ==
    IF items = <<>> THEN <<>>
    ELSE << H2 \o section, <<>> >>
         \o [i \in 1..Len(items) |-> item_line(items[i])]
         \o << <<>> >>

\* generate_llms_txt: the loop over ordered
RECURSIVE sections_lines(_, _, _)
sections_lines(ordered, pages, options) ==
    IF ordered = <<>> THEN <<>>
    ELSE section_lines(Head(ordered), group(pages, options, Head(ordered)))
         \o sections_lines(Tail(ordered), pages, options)

\* generate_llms_txt: the title and the summary lines
head_lines(title, summary) ==
    << <<"#", " ">> \o title, <<>> >>
    \o (IF summary # <<>> THEN << <<">", " ">> \o summary, <<>> >> ELSE <<>>)

\* "\n".join(lines).rstrip() + "\n"
rendered(lines) == RStripSpace(Join(lines, "\n")) \o <<"\n">>

SITE == <<"S", "i", "t", "e">>

\* _find_homepage: base, from the base_url option (<<>> when it is absent)
base_of(pages, base) ==
    IF base # <<>> /\ base[1] # <<>>
    THEN RStrip(base[1], "/")
    ELSE Or(urlparse(pages[1].url, <<>>).scheme, HTTPS) \o <<":", "/", "/">>
         \o urlparse(pages[1].url, <<>>).netloc

\* _find_homepage: the test of the loop over pages
is_homepage(n, base) == n = base \/ n = base \o <<"/">>

\* _find_homepage: the first page at base, else the first page
RECURSIVE homepage_of(_, _, _)
homepage_of(pages, base, first) ==
    IF pages = <<>> THEN first
    ELSE IF is_homepage(_normalize_for_compare(Head(pages).url), base) THEN Head(pages)
    ELSE homepage_of(Tail(pages), base, first)

\* _find_homepage, once the homepage is chosen
title_and_summary(homepage) ==
    <<Or(Strip(homepage.title), SITE), Strip(homepage.description)>>

\* _find_homepage(pages, base_url): <<title, summary>>
_find_homepage(pages, base) ==
    IF pages = <<>> THEN <<SITE, <<>> >>
    ELSE title_and_summary(homepage_of(pages, base_of(pages, base), pages[1]))

\* generate_llms_txt: the title, an absent site_name being <<>>
title_of(pages, options) ==
    IF options.site_name # <<>> THEN Or(Strip(options.site_name[1]), SITE)
    ELSE _find_homepage(pages, options.base_url)[1]

\* generate_llms_txt: the summary, an absent summary being <<>>
summary_of(pages, options) ==
    IF options.summary # <<>> THEN Strip(options.summary[1])
    ELSE IF options.site_name # <<>> THEN <<>>
    ELSE _find_homepage(pages, options.base_url)[2]

\* generate_llms_txt(pages, options)
generate_llms_txt(pages, options) ==
    rendered(head_lines(title_of(pages, options), summary_of(pages, options))
             \o sections_lines(ordered_sections(first_seen(sections_of(pages, options),
                                                           <<>>),
                                                options.default_section),
                               pages, options))

----------------------------------------------------------------------------
(* One document: generate_llms_txt(pages, options) *)

MaxGenPages == 2

PageInfo(path, title, description) ==
    [url |-> ORIGIN_H \o path, title |-> title, description |-> description]

P_HOME == PageInfo(<<>>, <<" ", "H", "o", "m", "e", " ">>, <<"d", "[", "1", "]">>)

P_TERMS == PageInfo(<<"/", "l", "e", "g", "a", "l", "/", "t", "e", "r", "m", "s">>, <<>>, <<>>)

P_COOKIES ==
    PageInfo(<<"/", "d", "o", "c", "s", "/", "c", "o", "o", "k", "i", "e", "s">>,
             <<>>, <<>>)

P_DOCS == PageInfo(<<"/", "e", "n", "/", "d", "o", "c", "s">>, <<"D", "o", "c", "s">>, <<>>)

ABOUT_US == <<"A", "b", "o", "u", "t", "-", "U", "s">>

P_ABOUT == PageInfo(<<"/">> \o ABOUT_US \o <<"/", "t", "e", "a", "m">>, <<>>, <<>>)

P_AB == PageInfo(<<"/", "a", "_", "b">>, <<>>, <<>>)

\* a first segment of MAX_SEGMENT_LEN + 1 characters
P_LONG ==
    PageInfo(<<"/">> \o [i \in 1..(MAX_SEGMENT_LEN + 1) |-> "a"]
             \o <<"/", "z", "e", "d">>, <<>>, <<>>)

PagePool == {P_HOME, P_TERMS, P_COOKIES, P_DOCS, P_ABOUT, P_AB, P_LONG}

MAIN == <<"M", "a", "i", "n">>

DOCS == <<"D", "o", "c", "s">>

\* a (prefix, section_name) rule
DOCS_RULE ==
    << <<"/", "e", "n", "/", "d", "o", "c", "s">>, <<"G", "u", "i", "d", "e", "s">> >>

\* a (segment, section_name) rule
ABOUT_RULE == <<ABOUT_US, <<"C", "o", "m", "p", "a", "n", "y">> >>

\* GeneratorOptions: the heuristic of auto_sections, or the rules
GenOptions ==
    {[site_name |-> n, summary |-> s, base_url |-> b, default_section |-> d,
      auto_sections |-> a,
      optional_paths |-> IF a THEN <<>> ELSE << <<"/", "l", "e", "g", "a", "l", "/">> >>,
      section_rules |-> IF a THEN <<>> ELSE <<DOCS_RULE>>,
      segment_rules |-> IF a THEN <<>> ELSE <<ABOUT_RULE>>] :
        n \in {<<>>, << <<"S">> >>}, s \in {<<>>, << <<" ", "s", " ">> >>},
        b \in {<<>>, <<ORIGIN_H \o <<"/">> >>}, d \in {MAIN, DOCS},
        a \in BOOLEAN}

InitGen ==
    /\ pc = "generate_llms_txt"
    /\ arg \in [pages : SeqsUpTo(PagePool, MaxGenPages), options : GenOptions]
    /\ ret = <<>>
    /\ NoCrawl

Generate ==
    /\ pc = "generate_llms_txt"
    /\ ret' = generate_llms_txt(arg.pages, arg.options)
    /\ pc' = "returned"
    /\ UNCHANGED <<arg, crawlVars>>

NextGen == Generate

SpecGen == InitGen /\ [][NextGen]_vars

\* the segments of the path of a URL
SegmentsOf(url) == Split(urlparse(url, <<>>).path, "/")

HasOptionalSegment(url) ==
    \E i \in 1..Len(SegmentsOf(url)) : SegmentsOf(url)[i] \in _OPTIONAL_SEGMENTS

\* index of the last "## " line of a document before line k, 0 when none
HeadingAbove(doc, k) ==
    IF \E h \in 1..(k - 1) : StartsWith(doc[h], H2)
    THEN CHOOSE h \in 1..(k - 1) :
            /\ StartsWith(doc[h], H2)
            /\ \A j \in (h + 1)..(k - 1) : ~StartsWith(doc[j], H2)
    ELSE 0

\* lines of doc that list the URL
ItemsOf(doc, url) ==
    {k \in 1..Len(doc) :
        /\ StartsWith(doc[k], <<"-", " ", "[">>)
        /\ \E t \in {Take(doc[k], Len(doc[k]) - Len(url) - 1)} :
              \/ doc[k] = t \o url \o <<")">>
              \/ \E j \in 1..Len(doc[k]) :
                    Take(doc[k], j) = Take(t, j - Len(url) - 1) \o url \o <<")">>
                    /\ SubSeq(doc[k], j + 1, j + 2) = <<":", " ">>}

\* C10: in automatic mode, every page whose path has a segment in
\* {legal, privacy, terms, cookies, cookie, optional} is listed under the
\* heading "## Optional" and nowhere else, and no heading follows that heading,
\* for every order of the pages.
C10_OptionalLast ==
    (pc = "returned" /\ arg.options.auto_sections) =>
        \A i \in 1..Len(arg.pages) :
            HasOptionalSegment(arg.pages[i].url) =>
                \E doc \in {Split(ret, "\n")} :
                    /\ ItemsOf(doc, arg.pages[i].url) # {}
                    /\ \A k \in ItemsOf(doc, arg.pages[i].url) :
                          /\ HeadingAbove(doc, k) > 0
                          /\ doc[HeadingAbove(doc, k)] = H2 \o OPTIONAL
                          /\ \A j \in (HeadingAbove(doc, k) + 1)..Len(doc) :
                                ~StartsWith(doc[j], H2)

\* C10 witness: /legal/terms was discovered before /en/docs and is rendered
\* under "## Optional", after "## Docs"
C10_Witness ==
    /\ pc = "returned"
    /\ arg.options.auto_sections
    /\ arg.options.default_section = MAIN
    /\ arg.pages = <<P_TERMS, P_DOCS>>
    /\ SelectSeq(Split(ret, "\n"), LAMBDA l : StartsWith(l, H2))
         = <<H2 \o DOCS, H2 \o OPTIONAL>>
    /\ ItemsOf(Split(ret, "\n"), P_TERMS.url) # {}

\* the titles of the "## " lines of a rendered document, in order
Headings(out) ==
    [i \in 1..Len(SelectSeq(Split(out, "\n"), LAMBDA l : StartsWith(l, H2))) |->
        Drop(SelectSeq(Split(out, "\n"), LAMBDA l : StartsWith(l, H2))[i], Len(H2))]

\* the sections the pages fall in
SectionsOf(pages, options) ==
    {_section_for_url(pages[i].url, options) : i \in 1..Len(pages)}

\* 0 for the default section, 2 for "Optional", 1 for any other
SectionRank(title, options) ==
    IF title = OPTIONAL THEN 2
    ELSE IF title = options.default_section THEN 0
    ELSE 1

DocTitle(out) == Drop(Split(out, "\n")[1], 2)

\* the summary of a rendered document: <<>> when it has no "> " line
DocSummary(out) ==
    IF Len(Split(out, "\n")) >= 3 /\ StartsWith(Split(out, "\n")[3], <<">", " ">>)
    THEN Drop(Split(out, "\n")[3], 2)
    ELSE <<>>

\* the homepage record: the first page at the base, with or without a
\* trailing slash, else the first page
HomepageRecord(pages, base) ==
    IF \E i \in 1..Len(pages) : pages[i].url \in {base, base \o <<"/">>}
    THEN pages[CHOOSE i \in 1..Len(pages) :
                  /\ pages[i].url \in {base, base \o <<"/">>}
                  /\ \A j \in 1..(i - 1) : pages[j].url \notin {base, base \o <<"/">>}]
    ELSE pages[1]

\* C12: a supplied site_name or summary is the title or summary of the
\* document; a field that is not supplied comes from the homepage record, so
\* without a supplied summary the description of the homepage record is the
\* summary; with no pages and nothing supplied the title is "Site" and
\* there is no summary.
C12_TitleSummaryResolution ==
    pc = "returned" =>
        /\ DocTitle(ret) =
              IF arg.options.site_name # <<>>
              THEN Or(Strip(arg.options.site_name[1]), SITE)
              ELSE IF arg.pages = <<>> THEN SITE
              ELSE Or(Strip(HomepageRecord(arg.pages,
                                           base_of(arg.pages, arg.options.base_url)).title),
                      SITE)
        /\ DocSummary(ret) =
              IF arg.options.summary # <<>> THEN Strip(arg.options.summary[1])
              ELSE IF arg.pages = <<>> THEN <<>>
              ELSE Strip(HomepageRecord(arg.pages,
                                        base_of(arg.pages, arg.options.base_url)).description)

\* C13: Seeding ends in Visiting with a frontier that is never empty: the
\* allowed sitemap seeds, or exactly [normalized root_url] when there are
\* none; with use_sitemap false the frontier is [normalized root_url] and
\* no request other than the one for robots.txt is made.
C13_SeedingFallback ==
    [][pc = "seeding" =>
          /\ pc' = "visiting"
          /\ base_url' = normalize_url(arg.base_url, <<>>)
          /\ \/ to_visit' = <<base_url'>>
             \/ /\ opts.use_sitemap
                /\ to_visit' # <<>>
                /\ \A i \in 1..Len(to_visit') :
                      path_allowed(to_visit'[i], disallowed_patterns')
          /\ ~opts.use_sitemap =>
                /\ to_visit' = <<base_url'>>
                /\ \A i \in 1..Len(aux_gets') :
                      aux_gets'[i] = get_robots_url(origin')]_vars

\* C14: with an effective delay above 0, the crawl sleeps after a dequeued
\* entry exactly when the entry led to a page GET, whether the GET answered
\* 200 or failed; skipped entries cause no sleep.
C14_SleepAfterEveryGet ==
    delay > 0 => (last.slept <=> last.act \in {"fetch_ok", "fetch_failed"})

\* the larger of two delays
Larger(a, b) == IF a >= b THEN a ELSE b

\* C15: the effective delay is options.crawl_delay without respect_robots,
\* and otherwise the larger of options.crawl_delay and the delay resolved
\* from robots.txt; it is never smaller than options.crawl_delay.
C15_EffectiveDelay ==
    pc \in {"visiting", "done"} =>
        /\ delay >= opts.crawl_delay
        /\ ~opts.respect_robots => delay = opts.crawl_delay
        /\ opts.respect_robots =>
              \E robots_txt \in RobotsTexts :
                  delay = Larger(opts.crawl_delay,
                                 get_robots_policy(robots_txt).crawl_delay)

\* the URLs of the new frontier that were not queued behind the dequeued head
Enqueued(old_frontier, new_frontier) ==
    {new_frontier[i] : i \in 1..Len(new_frontier)}
    \ {old_frontier[i] : i \in 2..Len(old_frontier)}

\* C16: every step of the Visiting loop either ends the crawl in Done, with
\* the frontier empty or len(results) = max_pages and results returned, or
\* is an iteration that brings the end nearer (visited grows, or visited is
\* unchanged and the frontier shrinks) and enqueues no URL that was dequeued
\* before: the dequeued head is visited or disallowed from then on, and an
\* enqueued URL is neither.  With finitely many URLs the loop reaches Done.
C16_LoopReachesDone ==
    [][pc = "visiting" =>
          \/ /\ pc' = "done"
             /\ to_visit = <<>> \/ Len(results) = opts.max_pages
             /\ ret' = results
          \/ /\ pc' = "visiting"
             /\ loop_continues
             /\ \/ visited \subseteq visited' /\ visited' # visited
                \/ visited' = visited /\ Len(to_visit') < Len(to_visit)
             /\ \/ Head(to_visit) \in visited'
                \/ ~path_allowed(Head(to_visit), disallowed_patterns)
             /\ \A u \in Enqueued(to_visit, to_visit') :
                   /\ u \notin visited'
                   /\ path_allowed(u, disallowed_patterns)]_vars

\* a path without its one trailing "/"; the empty path and "/" are the root
WithoutOneSlash(path) ==
    IF path \in {<<>>, <<"/">>} THEN <<"/">>
    ELSE IF path[Len(path)] = "/" THEN Take(path, Len(path) - 1)
    ELSE path

\* C17: normalize_url takes exactly one trailing "/" off a path that is not
\* the root and keeps the root "/", with or without a query string: the
\* URL https://h<path><query> normalizes to https://h<path without one
\* trailing slash><query>.
C17_OneTrailingSlash ==
    pc # "normalize_url" =>
        \A path \in SeqsUpTo({"/", "a"}, MaxPathLen), query \in {<<>>, <<"?", "q">>} :
            (/\ arg.url = ORIGIN_H \o path \o query
             /\ (path = <<>> \/ path[1] = "/"))
                => ret[1] = ORIGIN_H \o WithoutOneSlash(path) \o query

-----------------------------------------------------------------------------
(* parse_robots over sequences of User-agent, Disallow and Crawl-delay lines *)

MaxRobotLines == 4

STAR_LINE == UA_LINE(<<"*">>)

UserAgentLines == {STAR_LINE, UA_LINE(<<"x">>)}

PATH_A == <<"/", "a">>

PATH_B == <<"/", "b">>

DisallowLines == {DISALLOW_LINE(PATH_A), DISALLOW_LINE(PATH_B)}

DelayLines == {CRAWL_DELAY_LINE(<<"2">>), CRAWL_DELAY_LINE(<<"7">>)}

RobotLines == UserAgentLines \cup DisallowLines \cup DelayLines

InitParse ==
    /\ pc = "parse_robots"
    /\ arg \in [lines : SeqsUpTo(RobotLines, MaxRobotLines)]
    /\ ret = <<>>
    /\ NoCrawl

ParseRobots ==
    /\ pc = "parse_robots"
    /\ ret' = parse_robots(arg.lines)
    /\ pc' = "returned"
    /\ UNCHANGED <<arg, crawlVars>>

NextParse == ParseRobots

SpecParse == InitParse /\ [][NextParse]_vars

\* the lines of the first block whose User-agent line names *: those after
\* that line and before the next User-agent line; <<>> without such a block
FirstStarBlock(lines) ==
    IF \A i \in 1..Len(lines) : lines[i] # STAR_LINE THEN <<>>
    ELSE LET first == CHOOSE i \in 1..Len(lines) :
                          /\ lines[i] = STAR_LINE
                          /\ \A j \in 1..(i - 1) : lines[j] # STAR_LINE
             rest == SubSeq(lines, first + 1, Len(lines))
         IN  IF \A k \in 1..Len(rest) : rest[k] \notin UserAgentLines THEN rest
             ELSE SubSeq(rest, 1, (CHOOSE k \in 1..Len(rest) :
                                       /\ rest[k] \in UserAgentLines
                                       /\ \A j \in 1..(k - 1) :
                                             rest[j] \notin UserAgentLines) - 1)

\* the patterns of the Disallow lines of a block, in order
DisallowedIn(block) ==
    [i \in 1..Len(SelectSeq(block, LAMBDA l : l \in DisallowLines)) |->
        IF SelectSeq(block, LAMBDA l : l \in DisallowLines)[i] = DISALLOW_LINE(PATH_A)
        THEN compile_pattern(PATH_A)
        ELSE compile_pattern(PATH_B)]

\* the delay of the last Crawl-delay line of a block (in tenths of a second),
\* 0 without one
DelayIn(block) ==
    IF SelectSeq(block, LAMBDA l : l \in DelayLines) = <<>> THEN 0
    ELSE IF SelectSeq(block, LAMBDA l : l \in DelayLines)
                [Len(SelectSeq(block, LAMBDA l : l \in DelayLines))]
            = CRAWL_DELAY_LINE(<<"2">>)
    THEN 20
    ELSE 70

\* C18: parse_robots returns exactly the Disallow patterns and the
\* Crawl-delay of the first block whose User-agent is *; later * blocks and
\* blocks of other agents add nothing; without a * block the result is the
\* empty list and no delay.
C18_FirstStarBlockOnly ==
    pc = "returned" =>
        /\ ret.disallowed = DisallowedIn(FirstStarBlock(arg.lines))
        /\ ret.crawl_delay = DelayIn(FirstStarBlock(arg.lines))

\* C18 witness: a second * block follows the first, and only the first counts
C18_Witness ==
    /\ pc = "returned"
    /\ arg.lines = <<STAR_LINE, DISALLOW_LINE(PATH_A), STAR_LINE, DISALLOW_LINE(PATH_B)>>
    /\ ret.disallowed = <<compile_pattern(PATH_A)>>

\* no element occurs twice in the sequence q
NoDuplicates(q) == \A i, j \in 1..Len(q) : q[i] = q[j] => i = j

\* C19: the frontier never holds a URL twice and visited only grows: a
\* step of the crawl leaves the frontier free of duplicates, removes nothing
\* from visited, and in the Visiting loop drops the head of the frontier and
\* appends, at the tail, only URLs that are not in visited and not queued.
C19_FrontierSet ==
    [][/\ NoDuplicates(to_visit')
       /\ visited \subseteq visited'
       /\ (pc = "visiting" /\ to_visit # <<>> /\ to_visit' # to_visit) =>
             /\ Len(to_visit') >= Len(to_visit) - 1
             /\ SubSeq(to_visit', 1, Len(to_visit) - 1) = Tail(to_visit)
             /\ \A i \in Len(to_visit)..Len(to_visit') :
                   /\ to_visit'[i] \notin visited'
                   /\ ~InSeq(to_visit'[i], Tail(to_visit))]_vars

\* C19 witness: the root was fetched and its link /p was appended to the
\* frontier; the root is in visited
C19_Witness ==
    /\ last.act = "fetch_ok"
    /\ to_visit = <<URL_P>>
    /\ visited = {ORIGIN_H}

\* C20: the list crawl_site returns never holds two records with the same
\* url, whatever redirects the site answers with.
C20_DistinctRecordUrls ==
    pc = "done" => \A i, j \in 1..Len(ret) : ret[i].url = ret[j].url => i = j

====
